---- MODULE Spec2Model ----
(***************************************************************************)
(* Model of seller.py (Ozon) and market.py (Yandex Market): pagination of  *)
(* the offer listing, stock and price reconciliation against the supplier  *)
(* feed, chunking, and the two main runs with their network calls.         *)
(*                                                                         *)
(* Representation.  A Python str that the code inspects character by       *)
(* character (quantity, price) is a sequence of one-character strings.     *)
(* An offer id is a natural number standing for one id string; a supplier  *)
(* record's field "code" is str(watch.get("Код")), "quantity" is           *)
(* watch.get("Количество") and "price" is watch.get("Цена").  A page       *)
(* cursor (last_id, nextPageToken) is the number of pages already served,  *)
(* and the empty string "" is cursor 0.                                    *)
(***************************************************************************)
EXTENDS Integers, Sequences, FiniteSets, TLC

VARIABLES
    p_fn,           \* pure calls: the function applied ("none" before the call)
    p_remnants,     \* pure calls: argument watch_remnants
    p_offer_ids,    \* pure calls: argument offer_ids as passed in
    p_lst,          \* pure calls: argument lst of divide
    p_n,            \* pure calls: argument n of divide
    p_price,        \* pure calls: argument price of price_conversion
    p_ret,          \* pure calls: the returned value
    p_after,        \* pure calls: the caller's offer_ids list when the call returns
    p_raised,       \* pure calls: exception raised by the call, or NoExc
    market,         \* the program that runs: "ozon" (seller.py), "yandex" (market.py)
    entry,          \* the function the run entered: "main" or "get_offer_ids"
    pc,             \* the statement the run is at
    camp,           \* the account or campaign the run works on: "ozon", "fbs", "dbs"
    listing,        \* per campaign, the pages the listing endpoint serves
    feed,           \* the records the supplier's spreadsheet holds
    last_id,        \* get_offer_ids of seller.py: last_id
    page,           \* get_offer_ids of market.py: page
    product_list,   \* get_offer_ids: product_list
    main_offer_ids,      \* main: offer_ids
    main_watch_remnants, \* main: watch_remnants
    main_stocks,         \* main: stocks
    main_prices,         \* main: prices
    chunks,         \* the list(divide(...)) a for loop iterates
    ci,             \* index in chunks of the loop's next element
    net,            \* the network calls made so far, in order
    exc,            \* the exception raised in the run, or NoExc
    raised_at,      \* the statement that raised it
    printed,        \* the lines printed so far
    exit_status,    \* the process exit status, -1 while running
    coroutines      \* coroutine objects created and never awaited

pvars == <<p_fn, p_remnants, p_offer_ids, p_lst, p_n, p_price, p_ret, p_after,
          p_raised>>

mvars == <<market, entry, pc, camp, listing, feed, last_id, page, product_list,
           main_offer_ids, main_watch_remnants, main_stocks, main_prices, chunks, ci, net, exc,
           raised_at, printed, exit_status, coroutines>>

vars == <<pvars, mvars>>

(***************************************************************************)
(* Bounds of the model.                                                    *)
(***************************************************************************)
MaxId == 3          \* offer ids of the pure calls are 1..MaxId
MaxCode == 2        \* supplier codes of the pure calls are 1..MaxCode
MaxRemnants == 2    \* longest supplier feed of the pure calls
MaxLst == 5         \* longest list given to divide
MaxN == 4           \* largest chunk size given to divide
MaxPrice == 4       \* longest generated price string given to price_conversion
MaxPages == 3       \* most pages of a listing in the pagination runs
MaxPageSize == 2    \* most items on one page in the pagination runs
MaxCalls == 30      \* most network calls of one run

NoExc == "none"

(***************************************************************************)
(* Python built-ins used by the code.                                      *)
(***************************************************************************)
Digits == {"0", "1", "2", "3", "4", "5", "6", "7", "8", "9"}

DigitVal(c) ==
    CASE c = "0" -> 0 [] c = "1" -> 1 [] c = "2" -> 2 [] c = "3" -> 3
      [] c = "4" -> 4 [] c = "5" -> 5 [] c = "6" -> 6 [] c = "7" -> 7
      [] c = "8" -> 8 [] c = "9" -> 9

RECURSIVE DigitsValue(_)
DigitsValue(s) ==
    IF s = <<>> THEN 0
    ELSE 10 * DigitsValue(SubSeq(s, 1, Len(s) - 1)) + DigitVal(s[Len(s)])

AllDigits(s) == Len(s) > 0 /\ \A i \in 1..Len(s) : s[i] \in Digits

\* int(s) of a str: an optional sign and at least one decimal digit, anything
\* else raises ValueError.
py_int_ok(s) ==
    IF Len(s) > 0 /\ s[1] \in {"+", "-"} THEN AllDigits(Tail(s)) ELSE AllDigits(s)

py_int(s) ==
    IF s[1] = "-" THEN 0 - DigitsValue(Tail(s))
    ELSE IF s[1] = "+" THEN DigitsValue(Tail(s))
    ELSE DigitsValue(s)

\* x in lst
py_in(x, lst) == \E i \in 1..Len(lst) : lst[i] = x

\* a removal of the list's first element, whatever it is
py_remove_head(lst, x) == Tail(lst)

\* a remove that forgets to delete
py_remove_kept(lst, x) == lst

\* lst.remove(x): deletes the first occurrence (the callers test x in lst first)
py_remove(lst, x) ==
    LET hits == {i \in 1..Len(lst) : lst[i] = x}
        first == CHOOSE i \in hits : \A j \in hits : i <= j
    IN  SubSeq(lst, 1, first - 1) \o SubSeq(lst, first + 1, Len(lst))

Min(a, b) == IF a < b THEN a ELSE b

RECURSIVE Flatten(_)
Flatten(ss) == IF ss = <<>> THEN <<>> ELSE Head(ss) \o Flatten(Tail(ss))

\* an assignment where the code extends
py_extend_replacing(lst, more) == more

\* lst.extend(more)
py_extend(lst, more) == lst \o more

(***************************************************************************)
(* seller.py: price_conversion and divide (market.py imports both).        *)
(***************************************************************************)
\* the text before the last "." instead of the first
split_dot_last(price) ==
    LET dots == {i \in 1..Len(price) : price[i] = "."}
    IN  IF dots = {} THEN price
        ELSE SubSeq(price, 1, (CHOOSE i \in dots : \A j \in dots : i >= j) - 1)

\* price.split(".")[0]
split_dot_first(price) ==
    LET dots == {i \in 1..Len(price) : price[i] = "."}
    IN  IF dots = {} THEN price
        ELSE SubSeq(price, 1, (CHOOSE i \in dots : \A j \in dots : i <= j) - 1)

IsDigit(c) == c \in Digits

price_conversion(price) == SelectSeq(split_dot_first(price), IsDigit)

\* range(0, len(lst), n), for n > 0
divide_range(len, n) == {i \in 0..(len - 1) : i % n = 0}

\* slices taken one element too long: lst[i : i + n + 1]
divide_overlap(lst, n) ==
    [k \in 1..Cardinality(divide_range(Len(lst), n)) |->
        SubSeq(lst, (k - 1) * n + 1, Min((k - 1) * n + n + 1, Len(lst)))]

\* list(divide(lst, n)): the slices lst[i : i + n] in increasing i
divide(lst, n) ==
    [k \in 1..Cardinality(divide_range(Len(lst), n)) |->
        SubSeq(lst, (k - 1) * n + 1, Min((k - 1) * n + n, Len(lst)))]

(***************************************************************************)
(* seller.py: create_stocks and create_prices.                             *)
(***************************************************************************)
\* the rule without its "1" branch
seller_stock_count_no_one(quantity) ==
    IF quantity = <<">", "1", "0">> THEN [ok |-> TRUE, stock |-> 100]
    ELSE IF py_int_ok(quantity) THEN [ok |-> TRUE, stock |-> py_int(quantity)]
    ELSE [ok |-> FALSE, stock |-> 0]

\* lines 238-244: the count of a matched record, ok = FALSE when int() raises
seller_stock_count(quantity) ==
    IF quantity = <<">", "1", "0">> THEN [ok |-> TRUE, stock |-> 100]
    ELSE IF quantity = <<"1">> THEN [ok |-> TRUE, stock |-> 0]
    ELSE IF py_int_ok(quantity) THEN [ok |-> TRUE, stock |-> py_int(quantity)]
    ELSE [ok |-> FALSE, stock |-> 0]

\* the zero updates appended in reverse order
seller_zero_fill_reversed(offer_ids) ==
    [k \in 1..Len(offer_ids) |->
        [offer_id |-> offer_ids[Len(offer_ids) + 1 - k], stock |-> 0]]

seller_zero_fill(offer_ids) ==
    [k \in 1..Len(offer_ids) |-> [offer_id |-> offer_ids[k], stock |-> 0]]

RECURSIVE seller_create_stocks_loop(_, _, _, _)
seller_create_stocks_loop(watch_remnants, i, offer_ids, stocks) ==
    IF i > Len(watch_remnants)
    THEN [ret |-> stocks \o seller_zero_fill(offer_ids),
          offer_ids |-> offer_ids, raised |-> NoExc]
    ELSE LET watch == watch_remnants[i]
             c == seller_stock_count(watch.quantity)
         IN  IF py_in(watch.code, offer_ids)
             THEN IF c.ok
                  THEN seller_create_stocks_loop(watch_remnants, i + 1,
                           py_remove(offer_ids, watch.code),
                           Append(stocks, [offer_id |-> watch.code, stock |-> c.stock]))
                  ELSE [ret |-> <<>>, offer_ids |-> offer_ids, raised |-> "ValueError"]
             ELSE seller_create_stocks_loop(watch_remnants, i + 1, offer_ids, stocks)

seller_create_stocks(watch_remnants, offer_ids) ==
    seller_create_stocks_loop(watch_remnants, 1, offer_ids, <<>>)

seller_price_entry(watch) ==
    [auto_action_enabled |-> "UNKNOWN", currency_code |-> "RUB",
     offer_id |-> watch.code, old_price |-> "0",
     price |-> price_conversion(watch.price)]

RECURSIVE seller_create_prices_loop(_, _, _, _)
seller_create_prices_loop(watch_remnants, i, offer_ids, prices) ==
    IF i > Len(watch_remnants)
    THEN [ret |-> prices, offer_ids |-> offer_ids, raised |-> NoExc]
    ELSE LET watch == watch_remnants[i]
         IN  IF py_in(watch.code, offer_ids)
             THEN seller_create_prices_loop(watch_remnants, i + 1, offer_ids,
                      Append(prices, seller_price_entry(watch)))
             ELSE seller_create_prices_loop(watch_remnants, i + 1, offer_ids, prices)

\* price reconciliation that skips the membership test
seller_create_prices_unfiltered(watch_remnants, offer_ids) ==
    [ret |-> [k \in 1..Len(watch_remnants) |-> seller_price_entry(watch_remnants[k])],
     offer_ids |-> offer_ids, raised |-> NoExc]

seller_create_prices(watch_remnants, offer_ids) ==
    seller_create_prices_loop(watch_remnants, 1, offer_ids, <<>>)

(***************************************************************************)
(* market.py: create_stocks and create_prices.                             *)
(***************************************************************************)
market_stock_count(quantity) ==
    IF quantity = <<">", "1", "0">> THEN [ok |-> TRUE, stock |-> 100]
    ELSE IF quantity = <<"1">> THEN [ok |-> TRUE, stock |-> 0]
    ELSE IF py_int_ok(quantity) THEN [ok |-> TRUE, stock |-> py_int(quantity)]
    ELSE [ok |-> FALSE, stock |-> 0]

market_stock_entry(sku, warehouse_id, count, date) ==
    [sku |-> sku, warehouseId |-> warehouse_id,
     items |-> <<[count |-> count, type |-> "FIT", updatedAt |-> date]>>]

market_zero_fill(offer_ids, warehouse_id, date) ==
    [k \in 1..Len(offer_ids) |-> market_stock_entry(offer_ids[k], warehouse_id, 0, date)]

RECURSIVE market_create_stocks_loop(_, _, _, _, _, _)
market_create_stocks_loop(watch_remnants, i, offer_ids, stocks, warehouse_id, date) ==
    IF i > Len(watch_remnants)
    THEN [ret |-> stocks \o market_zero_fill(offer_ids, warehouse_id, date),
          offer_ids |-> offer_ids, raised |-> NoExc]
    ELSE LET watch == watch_remnants[i]
             c == market_stock_count(watch.quantity)
         IN  IF py_in(watch.code, offer_ids)
             THEN IF c.ok
                  THEN market_create_stocks_loop(watch_remnants, i + 1,
                           py_remove(offer_ids, watch.code),
                           Append(stocks,
                               market_stock_entry(watch.code, warehouse_id, c.stock, date)),
                           warehouse_id, date)
                  ELSE [ret |-> <<>>, offer_ids |-> offer_ids, raised |-> "ValueError"]
             ELSE market_create_stocks_loop(watch_remnants, i + 1, offer_ids, stocks,
                      warehouse_id, date)

\* date is str(datetime.datetime.utcnow()...) of line 234
market_create_stocks(watch_remnants, offer_ids, warehouse_id, date) ==
    market_create_stocks_loop(watch_remnants, 1, offer_ids, <<>>, warehouse_id, date)

market_price_entry(watch) ==
    [id |-> watch.code,
     price |-> [value |-> py_int(price_conversion(watch.price)), currencyId |-> "RUR"]]

RECURSIVE market_create_prices_loop(_, _, _, _)
market_create_prices_loop(watch_remnants, i, offer_ids, prices) ==
    IF i > Len(watch_remnants)
    THEN [ret |-> prices, offer_ids |-> offer_ids, raised |-> NoExc]
    ELSE LET watch == watch_remnants[i]
         IN  IF py_in(watch.code, offer_ids)
             THEN IF py_int_ok(price_conversion(watch.price))
                  THEN market_create_prices_loop(watch_remnants, i + 1, offer_ids,
                           Append(prices, market_price_entry(watch)))
                  ELSE [ret |-> <<>>, offer_ids |-> offer_ids, raised |-> "ValueError"]
             ELSE market_create_prices_loop(watch_remnants, i + 1, offer_ids, prices)

market_create_prices(watch_remnants, offer_ids) ==
    market_create_prices_loop(watch_remnants, 1, offer_ids, <<>>)

(***************************************************************************)
(* Inputs of the pure calls.                                               *)
(***************************************************************************)
SeqsUpTo(S, n) == UNION {[1..k -> S] : k \in 0..n}

Ids == 1..MaxId

QGt10 == <<">", "1", "0">>
\* the empty quantity is an empty spreadsheet cell, which int() rejects
Quantities == {QGt10, <<"1">>, <<"7">>, <<"0">>, <<>>}
ValidQuantities == {q \in Quantities : q = QGt10 \/ AllDigits(q)}

Price100 == <<"1", "0", "0", ".", "0", "0", " ", "x">>
Price50 == <<"5", "0", ".", "0", "0", " ", "x">>
PriceNoDigits == <<"x">>
Prices == {Price100, PriceNoDigits}

\* create_stocks never reads the price and create_prices never reads the
\* quantity, so a feed varies one of the two and fixes the other.
SupplierCodes == 1..MaxCode
StockRecords == [code : SupplierCodes, quantity : Quantities, price : {Price100}]
PriceRecords == [code : SupplierCodes, quantity : {<<"7">>}, price : Prices]
Feeds == SeqsUpTo(StockRecords, MaxRemnants) \cup SeqsUpTo(PriceRecords, MaxRemnants)

\* every duplicate-free list of offer ids, and the lists that repeat one id
OfferLists ==
    {o \in SeqsUpTo(Ids, MaxId) : \A i, j \in 1..Len(o) : o[i] = o[j] => i = j}
        \cup {<<id, id>> : id \in Ids}
Lsts == SeqsUpTo({1, 2}, MaxLst)

\* The documented price strings, with the Cyrillic letters of the currency
\* written in Latin ones: "5'990.00 rub.", "100 rub", "1'234.50 u.e."
PriceRub == <<"5", "'", "9", "9", "0", ".", "0", "0", " ", "r", "u", "b", ".">>
PriceNoDot == <<"1", "0", "0", " ", "r", "u", "b">>
PriceUe == <<"1", "'", "2", "3", "4", ".", "5", "0", " ", "u", ".", "e", ".">>
PriceAlphabet == {"5", "0", ".", "'", "r"}
PriceStrings == SeqsUpTo(PriceAlphabet, MaxPrice) \cup {PriceRub, PriceNoDot, PriceUe}

Campaigns == {"ozon", "fbs", "dbs"}
EmptyCursor == 0

WarehouseFbs == "warehouse_fbs"
WarehouseDbs == "warehouse_dbs"
UtcNow == "2024-12-11T14:30:45Z"

(***************************************************************************)
(* Pure calls: one call of one function on inputs drawn in PureInit.       *)
(***************************************************************************)
PureInit ==
    /\ p_fn = "none"
    /\ \/ /\ p_remnants \in Feeds
          /\ p_offer_ids \in OfferLists
          /\ p_lst = <<>>
          /\ p_n = 1
          /\ p_price = <<>>
       \/ /\ p_remnants = <<>>
          /\ p_offer_ids = <<>>
          /\ p_lst \in Lsts
          /\ p_n \in 1..MaxN
          /\ p_price = <<>>
       \/ /\ p_remnants = <<>>
          /\ p_offer_ids = <<>>
          /\ p_lst = <<>>
          /\ p_n = 1
          /\ p_price \in PriceStrings
    /\ p_ret = <<>>
    /\ p_after = p_offer_ids
    /\ p_raised = NoExc
    /\ market = "none" /\ entry = "none" /\ pc = "idle" /\ camp = "none"
    /\ listing = [c \in Campaigns |-> <<>>]
    /\ feed = <<>> /\ last_id = EmptyCursor /\ page = EmptyCursor
    /\ product_list = <<>> /\ main_offer_ids = <<>>
    /\ main_watch_remnants = <<>>
    /\ main_stocks = <<>> /\ main_prices = <<>> /\ chunks = <<>> /\ ci = 1
    /\ net = <<>> /\ exc = NoExc /\ raised_at = "none" /\ printed = <<>>
    /\ exit_status = -1 /\ coroutines = <<>>

Returned(fn, r) ==
    /\ p_fn = "none"
    /\ p_fn' = fn
    /\ p_ret' = r.ret
    /\ p_after' = r.offer_ids
    /\ p_raised' = r.raised
    /\ UNCHANGED <<p_remnants, p_offer_ids, p_lst, p_n, p_price>>
    /\ UNCHANGED mvars

CallSellerCreateStocks ==
    Returned("seller.create_stocks", seller_create_stocks(p_remnants, p_offer_ids))

CallMarketCreateStocks ==
    Returned("market.create_stocks",
             market_create_stocks(p_remnants, p_offer_ids, WarehouseFbs, UtcNow))

CallSellerCreatePrices ==
    Returned("seller.create_prices", seller_create_prices(p_remnants, p_offer_ids))

CallMarketCreatePrices ==
    Returned("market.create_prices", market_create_prices(p_remnants, p_offer_ids))

CallDivide ==
    Returned("divide",
             [ret |-> divide(p_lst, p_n), offer_ids |-> p_offer_ids, raised |-> NoExc])

CallPriceConversion ==
    Returned("price_conversion",
             [ret |-> price_conversion(p_price), offer_ids |-> p_offer_ids,
              raised |-> NoExc])

PureNext ==
    \/ CallPriceConversion
    \/ CallSellerCreateStocks
    \/ CallMarketCreateStocks
    \/ CallSellerCreatePrices
    \/ CallMarketCreatePrices
    \/ CallDivide

PureSpec == PureInit /\ [][PureNext]_vars

(***************************************************************************)
(* Properties of the pure calls.                                           *)
(***************************************************************************)
StockFns == {"seller.create_stocks", "market.create_stocks"}
PriceFns == {"seller.create_prices", "market.create_prices"}

Range(s) == {s[i] : i \in 1..Len(s)}
DupFree(s) == \A i, j \in 1..Len(s) : s[i] = s[j] => i = j
Codes(remnants) == {remnants[i].code : i \in 1..Len(remnants)}
QuantitiesValid(remnants) ==
    \A i \in 1..Len(remnants) : remnants[i].quantity \in ValidQuantities

StockId(fn, e) == IF fn = "seller.create_stocks" THEN e.offer_id ELSE e.sku
StockCount(fn, e) == IF fn = "seller.create_stocks" THEN e.stock ELSE e.items[1].count
PriceId(fn, e) == IF fn = "seller.create_prices" THEN e.offer_id ELSE e.id

UpdatesOf(id) == {k \in 1..Len(p_ret) : StockId(p_fn, p_ret[k]) = id}

\* C3: for a duplicate-free offer-id list and a feed of valid quantities,
\* create_stocks of either marketplace returns exactly one update for each
\* offer id of the list and no update for any other id.
C3_StocksTotalExact ==
    (p_fn \in StockFns /\ DupFree(p_offer_ids) /\ QuantitiesValid(p_remnants)) =>
        /\ p_raised = NoExc
        /\ \A id \in Range(p_offer_ids) : Cardinality(UpdatesOf(id)) = 1
        /\ \A k \in 1..Len(p_ret) : StockId(p_fn, p_ret[k]) \in Range(p_offer_ids)

C3_Witness ==
    /\ p_fn \in StockFns
    /\ DupFree(p_offer_ids)
    /\ QuantitiesValid(p_remnants)
    /\ Len(p_remnants) = 2
    /\ p_remnants[1].code = p_remnants[2].code
    /\ p_remnants[1].code \in Range(p_offer_ids)
    /\ Len(p_offer_ids) >= 2
    /\ Len(p_ret) = Len(p_offer_ids)

\* C7: for n > 0 the chunks of divide(lst, n) concatenate to lst, every chunk
\* but the last has length n, the last has 1..n elements, and the empty list
\* yields no chunk.
C7_DividePartition ==
    p_fn = "divide" =>
        /\ Flatten(p_ret) = p_lst
        /\ \A k \in 1..Len(p_ret) :
              /\ k < Len(p_ret) => Len(p_ret[k]) = p_n
              /\ Len(p_ret[k]) >= 1
              /\ Len(p_ret[k]) <= p_n
        /\ Len(p_lst) = 0 => p_ret = <<>>

C7_Witness ==
    /\ p_fn = "divide"
    /\ Len(p_ret) >= 2
    /\ Len(p_ret[Len(p_ret)]) < p_n

\* C8: create_prices of either marketplace emits entries only for ids that
\* are both a supplier record's code and in the provided offer-id list, and
\* leaves the provided list unchanged.
C8_PricesOnlyForBoth ==
    p_fn \in PriceFns =>
        /\ \A k \in 1..Len(p_ret) :
              /\ PriceId(p_fn, p_ret[k]) \in Codes(p_remnants)
              /\ PriceId(p_fn, p_ret[k]) \in Range(p_offer_ids)
        /\ \A id \in Range(p_offer_ids) \ Codes(p_remnants) :
              \A k \in 1..Len(p_ret) : PriceId(p_fn, p_ret[k]) # id
        /\ p_after = p_offer_ids

C8_Witness ==
    /\ p_fn \in PriceFns
    /\ p_raised = NoExc
    /\ Len(p_ret) >= 1
    /\ Range(p_offer_ids) \ Codes(p_remnants) # {}
    /\ Codes(p_remnants) \ Range(p_offer_ids) # {}

\* The quantity rule as the documentation tabulates it.
QuantityRule(q) ==
    CASE q = QGt10 -> 100
      [] q = <<"1">> -> 0
      [] q = <<"7">> -> 7
      [] q = <<"0">> -> 0

FirstRecord(remnants, id) ==
    remnants[CHOOSE i \in 1..Len(remnants) :
                 /\ remnants[i].code = id
                 /\ \A j \in 1..(i - 1) : remnants[j].code # id]

\* C10: in the stock list of a duplicate-free offer-id list, the update of an
\* offer id matched by a supplier record carries 100 for ">10", 0 for "1" and
\* the integer itself for any other literal; an unmatched id carries 0.
C10_QuantityRule ==
    (p_fn \in StockFns /\ DupFree(p_offer_ids) /\ QuantitiesValid(p_remnants)) =>
        \A k \in 1..Len(p_ret) :
            LET id == StockId(p_fn, p_ret[k])
            IN  StockCount(p_fn, p_ret[k]) =
                    IF id \in Codes(p_remnants)
                    THEN QuantityRule(FirstRecord(p_remnants, id).quantity)
                    ELSE 0

C10_Witness ==
    /\ p_fn \in StockFns
    /\ DupFree(p_offer_ids)
    /\ Len(p_ret) = 3
    /\ \E k \in 1..3 : StockCount(p_fn, p_ret[k]) = 100
    /\ \E k \in 1..3 :
          /\ StockCount(p_fn, p_ret[k]) = 0
          /\ StockId(p_fn, p_ret[k]) \in Codes(p_remnants)
          /\ FirstRecord(p_remnants, StockId(p_fn, p_ret[k])).quantity = <<"1">>
    /\ \E k \in 1..3 : StockId(p_fn, p_ret[k]) \notin Codes(p_remnants)

\* the codes of the supplier records that match an id of the list, in the
\* order of the records; of records with the same code only the first matches
FirstMatches(remnants, ids) ==
    LET idx == SelectSeq([i \in 1..Len(remnants) |-> i],
                   LAMBDA i : /\ remnants[i].code \in Range(ids)
                              /\ \A j \in 1..(i - 1) : remnants[j].code # remnants[i].code)
    IN  [k \in 1..Len(idx) |-> remnants[idx[k]].code]

\* the ids of the list that no supplier record carries, in the list's order
Unmatched(ids, remnants) == SelectSeq(ids, LAMBDA id : id \notin Codes(remnants))

RetIds == [k \in 1..Len(p_ret) |-> StockId(p_fn, p_ret[k])]
RetCounts == [k \in 1..Len(p_ret) |-> StockCount(p_fn, p_ret[k])]

\* C12: the stock list of a duplicate-free offer-id list holds first the
\* updates of the matched ids in supplier-record order, then the zero updates
\* of the unmatched ids in offer-id-list order; supplier [1 ">10", 2 "1"] and
\* offer ids [1, 2, 3] give [1:100, 2:0, 3:0].
C12_StockListOrder ==
    (p_fn \in StockFns /\ DupFree(p_offer_ids) /\ QuantitiesValid(p_remnants)) =>
        /\ RetIds = FirstMatches(p_remnants, p_offer_ids)
                        \o Unmatched(p_offer_ids, p_remnants)
        /\ \A k \in 1..Len(p_ret) :
              k > Len(FirstMatches(p_remnants, p_offer_ids)) => RetCounts[k] = 0
        /\ ( /\ Len(p_remnants) = 2
             /\ p_remnants[1].code = 1 /\ p_remnants[1].quantity = QGt10
             /\ p_remnants[2].code = 2 /\ p_remnants[2].quantity = <<"1">>
             /\ p_offer_ids = <<1, 2, 3>> ) =>
                (RetIds = <<1, 2, 3>> /\ RetCounts = <<100, 0, 0>>)

C12_Witness ==
    /\ p_fn \in StockFns
    /\ p_offer_ids = <<3, 1, 2>>
    /\ Len(p_remnants) = 2
    /\ p_remnants[1].code = 2 /\ p_remnants[1].quantity = <<"7">>
    /\ p_remnants[2].code = 1 /\ p_remnants[2].quantity = QGt10
    /\ RetIds = <<2, 1, 3>>
    /\ RetCounts = <<7, 100, 0>>

\* C13: when create_stocks returns, the duplicate-free list passed in holds
\* exactly the offer ids without a matching supplier record, in their
\* original relative order; every matched id is gone from it.
C13_OfferIdsLeftUnmatched ==
    (p_fn \in StockFns /\ DupFree(p_offer_ids) /\ QuantitiesValid(p_remnants)) =>
        /\ p_after = Unmatched(p_offer_ids, p_remnants)
        /\ \A id \in Codes(p_remnants) : id \notin Range(p_after)

C13_Witness ==
    /\ p_fn \in StockFns
    /\ DupFree(p_offer_ids)
    /\ QuantitiesValid(p_remnants)
    /\ Len(p_offer_ids) = 3
    /\ p_offer_ids[2] \in Codes(p_remnants)
    /\ p_offer_ids[1] \notin Codes(p_remnants)
    /\ p_offer_ids[3] \notin Codes(p_remnants)
    /\ p_after = <<p_offer_ids[1], p_offer_ids[3]>>

\* The digits met before the first ".", reading the price left to right.
RECURSIVE DigitsBeforeDot(_)
DigitsBeforeDot(price) ==
    IF price = <<>> THEN <<>>
    ELSE IF Head(price) = "." THEN <<>>
    ELSE IF Head(price) \in Digits THEN <<Head(price)>> \o DigitsBeforeDot(Tail(price))
    ELSE DigitsBeforeDot(Tail(price))

\* C11: price_conversion returns the digits of the text before the first "."
\* of the price (of the whole price when it has no "."), in their order:
\* "5'990.00 rub." gives "5990", "100 rub" gives "100", "1'234.50 u.e." "1234".
C11_PriceConversion ==
    p_fn = "price_conversion" =>
        /\ p_ret = DigitsBeforeDot(p_price)
        /\ p_price = PriceRub => p_ret = <<"5", "9", "9", "0">>
        /\ p_price = PriceNoDot => p_ret = <<"1", "0", "0">>
        /\ p_price = PriceUe => p_ret = <<"1", "2", "3", "4">>

C11_Witness ==
    /\ p_fn = "price_conversion"
    /\ p_price = PriceUe
    /\ p_ret = <<"1", "2", "3", "4">>

(***************************************************************************)
(* The listing endpoints.  A campaign's catalogue is a sequence of pages;  *)
(* the endpoint answers a request carrying cursor c with page c + 1.       *)
(***************************************************************************)
PageAt(pages, c) == IF c + 1 <= Len(pages) THEN pages[c + 1] ELSE <<>>

\* seller.get_product_list: response_object.get("result")
seller_get_product_list(pages, c) ==
    [items |-> [k \in 1..Len(PageAt(pages, c)) |-> [offer_id |-> PageAt(pages, c)[k]]],
     total |-> Len(Flatten(pages)),
     last_id |-> Min(c + 1, Len(pages))]

\* market.get_product_list: response_object.get("result")
market_get_product_list(pages, c) ==
    [offerMappingEntries |->
        [k \in 1..Len(PageAt(pages, c)) |-> [offer |-> [shopSku |-> PageAt(pages, c)[k]]]],
     paging |-> [nextPageToken |-> IF c + 1 < Len(pages) THEN c + 1 ELSE EmptyCursor]]

\* One entry of the log of network calls.
Call(endpoint, campaign, cursor, next, payload, status) ==
    [endpoint |-> endpoint, campaign |-> campaign, cursor |-> cursor,
     next |-> next, payload |-> payload, status |-> status]

NetExc == {"ReadTimeout", "ConnectionError", "HTTPError"}

(***************************************************************************)
(* get_offer_ids of the two programs, one request per step.                *)
(***************************************************************************)
\* the loop test compared against the page just received
seller_loop_done_last_page(total, lst, items) == total = Len(items)

\* seller.py line 85: total == len(product_list)
seller_loop_done(total, lst, items) == total = Len(lst)

\* the loop test inverted
market_loop_done_inverted(token) == token # EmptyCursor

\* market.py line 180: not page
market_loop_done(token) == token = EmptyCursor

AfterGetOfferIds ==
    IF entry = "get_offer_ids" THEN "returned"
    ELSE IF market = "ozon" THEN "download_stock" ELSE "create_stocks"

seller_get_offer_ids_step ==
    /\ market = "ozon"
    /\ pc = "get_offer_ids"
    /\ Len(net) < MaxCalls
    /\ LET some_prod == seller_get_product_list(listing[camp], last_id)
           extended == py_extend(product_list, some_prod.items)
       IN  /\ net' = Append(net, Call("list", camp, last_id, some_prod.last_id, <<>>, "ok"))
           /\ product_list' = extended
           /\ last_id' = some_prod.last_id
           /\ IF seller_loop_done(some_prod.total, extended, some_prod.items)
              THEN /\ main_offer_ids' = [k \in 1..Len(extended) |-> extended[k].offer_id]
                   /\ pc' = AfterGetOfferIds
              ELSE UNCHANGED <<main_offer_ids, pc>>
    /\ UNCHANGED <<market, entry, camp, listing, feed, page, main_watch_remnants,
                   main_stocks, main_prices, chunks, ci, exc, raised_at, printed,
                   exit_status, coroutines>>
    /\ UNCHANGED pvars

market_get_offer_ids_step ==
    /\ market = "yandex"
    /\ pc = "get_offer_ids"
    /\ Len(net) < MaxCalls
    /\ LET some_prod == market_get_product_list(listing[camp], page)
           extended == py_extend(product_list, some_prod.offerMappingEntries)
           token == some_prod.paging.nextPageToken
       IN  /\ net' = Append(net, Call("list", camp, page, token, <<>>, "ok"))
           /\ product_list' = extended
           /\ page' = token
           /\ IF market_loop_done(token)
              THEN /\ main_offer_ids' = [k \in 1..Len(extended) |-> extended[k].offer.shopSku]
                   /\ pc' = AfterGetOfferIds
              ELSE UNCHANGED <<main_offer_ids, pc>>
    /\ UNCHANGED <<market, entry, camp, listing, feed, last_id, main_watch_remnants,
                   main_stocks, main_prices, chunks, ci, exc, raised_at, printed,
                   exit_status, coroutines>>
    /\ UNCHANGED pvars

(***************************************************************************)
(* Pagination runs: one call of get_offer_ids against a listing.           *)
(***************************************************************************)
RECURSIVE SumUpTo(_, _)
SumUpTo(sizes, i) == IF i = 0 THEN 0 ELSE sizes[i] + SumUpTo(sizes, i - 1)

\* pages of the given sizes whose items are the ids 1, 2, 3, ... in order
ListingOfSizes(sizes) ==
    [i \in 1..Len(sizes) |-> [k \in 1..sizes[i] |-> SumUpTo(sizes, i - 1) + k]]

PagSizes == UNION {[1..k -> 0..MaxPageSize] : k \in 1..MaxPages}
PagListings == {ListingOfSizes(sizes) : sizes \in PagSizes}

PureIdle ==
    /\ p_fn = "unused" /\ p_remnants = <<>> /\ p_offer_ids = <<>> /\ p_lst = <<>>
    /\ p_n = 1 /\ p_price = <<>> /\ p_ret = <<>> /\ p_after = <<>> /\ p_raised = NoExc

RunStart ==
    /\ last_id = EmptyCursor /\ page = EmptyCursor /\ product_list = <<>>
    /\ main_offer_ids = <<>> /\ main_watch_remnants = <<>>
    /\ main_stocks = <<>> /\ main_prices = <<>> /\ chunks = <<>> /\ ci = 1
    /\ net = <<>> /\ exc = NoExc /\ raised_at = "none" /\ printed = <<>>
    /\ exit_status = -1 /\ coroutines = <<>>

PagInit ==
    /\ PureIdle
    /\ RunStart
    /\ entry = "get_offer_ids"
    /\ pc = "get_offer_ids"
    /\ market \in {"ozon", "yandex"}
    /\ camp = IF market = "ozon" THEN "ozon" ELSE "fbs"
    /\ \E pages \in PagListings :
          listing = [c \in Campaigns |-> IF c = camp THEN pages ELSE <<>>]
    /\ feed = <<>>

PagNext == seller_get_offer_ids_step \/ market_get_offer_ids_step

PagSpec == PagInit /\ [][PagNext]_vars

\* The loop runs on: each iteration follows the one before it.
FairPagSpec == PagSpec /\ WF_vars(PagNext)

ListCalls == SelectSeq(net, LAMBDA call : call.endpoint = "list")

\* C4: get_offer_ids of either marketplace stops once the listing is
\* exhausted and returns, for every listing of finitely many pages.
C4_GetOfferIdsTerminates == <>(pc = "returned")

C4_Witness ==
    /\ pc = "returned"
    /\ Len(net) = MaxPages
    /\ Len(main_offer_ids) >= 3

\* C9: the first listing request carries the empty cursor, each later one
\* the cursor of the previous response, and the ids returned are the items
\* of all pages in page order, each once.
C9_PagesAccumulate ==
    /\ \A i \in 1..Len(net) :
          net[i].cursor = IF i = 1 THEN EmptyCursor ELSE net[i - 1].next
    /\ pc = "returned" => main_offer_ids = Flatten(listing[camp])

C9_Witness ==
    /\ pc = "returned"
    /\ listing[camp] = <<<<1, 2>>, <<3, 4>>, <<5>>>>
    /\ main_offer_ids = <<1, 2, 3, 4, 5>>
    /\ Len(net) = 3

(***************************************************************************)
(* The main runs of seller.py and market.py, one network call per step.    *)
(***************************************************************************)
\* the stock loop chunked with the size upload_prices uses
SellerStockBatchOfPrices == 1000

SellerStockBatch == 100
SellerPriceBatch == 900
MarketStockBatch == 2000
SellerPageLimit == 1000
MarketPageLimit == 200

Rec(code, quantity, price) == [code |-> code, quantity |-> quantity, price |-> price]

FeedAB == <<Rec(1, QGt10, Price100), Rec(2, <<"1">>, Price50)>>
FeedBadQuantity == <<Rec(1, <<"7">>, Price100), Rec(2, <<>>, Price50)>>
MainFeeds == {<<>>, FeedAB, FeedBadQuantity, <<Rec(3, <<"7">>, Price100)>>}

\* a catalogue of the ids 1..n served in pages of the requested limit
BigListing(n, limit) == divide([i \in 1..n |-> i], limit)

SmallListings == {<<<<>>>>, <<<<1, 2, 3>>>>, <<<<1, 2>>, <<3>>>>, <<<<1, 1>>>>}
OzonListings == SmallListings \cup {BigListing(2 * SellerStockBatch + 1, SellerPageLimit)}
YandexListings == SmallListings \cup {BigListing(MarketStockBatch + 1, MarketPageLimit)}

MainInit ==
    /\ PureIdle
    /\ RunStart
    /\ entry = "main"
    /\ market \in {"ozon", "yandex"}
    /\ feed \in MainFeeds
    /\ \/ /\ market = "ozon"
          /\ pc = "get_offer_ids"
          /\ camp = "ozon"
          /\ \E pages \in OzonListings :
                listing = [c \in Campaigns |-> IF c = "ozon" THEN pages ELSE <<>>]
       \/ /\ market = "yandex"
          /\ pc = "download_stock"
          /\ camp = "fbs"
          /\ \E fbs \in YandexListings, dbs \in YandexListings :
                listing = [c \in Campaigns |->
                              IF c = "fbs" THEN fbs ELSE IF c = "dbs" THEN dbs ELSE <<>>]

Outcomes == {"ok"} \cup NetExc

\* the except clauses of main: lines 352-357 of seller.py, 458-463 of market.py
Diagnostic(e) ==
    IF e = "ReadTimeout" THEN "timeout message"
    ELSE IF e = "ConnectionError" THEN "connection error message"
    ELSE "ERROR_2"

\* a handler that swallows the failure of one chunk and goes on
loop_on_raise_continue(at, i) == [pc |-> at, ci |-> i + 1]

\* an exception raised in a for loop's body leaves the loop
loop_on_raise(at, i) == [pc |-> "raised", ci |-> i]

\* the statements of market.main ahead of its try block
market_before_try_none(at) == FALSE

\* market.py line 439: download_stock() is called before the try statement
market_before_try(at) == at = "download_stock"

\* requests raises in get_product_list
get_product_list_raises ==
    /\ entry = "main"
    /\ pc = "get_offer_ids"
    /\ Len(net) < MaxCalls
    /\ \E e \in NetExc :
          /\ net' = Append(net, Call("list", camp,
                               IF market = "ozon" THEN last_id ELSE page,
                               EmptyCursor, <<>>, e))
          /\ exc' = e
    /\ raised_at' = pc
    /\ pc' = "raised"
    /\ UNCHANGED <<market, entry, camp, listing, feed, last_id, page, product_list,
                   main_offer_ids, main_watch_remnants, main_stocks, main_prices,
                   chunks, ci, printed, exit_status, coroutines>>
    /\ UNCHANGED pvars

download_stock ==
    /\ pc = "download_stock"
    /\ Len(net) < MaxCalls
    /\ \E outcome \in Outcomes :
          /\ net' = Append(net, Call("download", "supplier", EmptyCursor, EmptyCursor,
                                     <<>>, outcome))
          /\ IF outcome = "ok"
             THEN /\ main_watch_remnants' = feed
                  /\ pc' = IF market = "ozon" THEN "create_stocks" ELSE "get_offer_ids"
                  /\ UNCHANGED <<exc, raised_at>>
             ELSE /\ exc' = outcome
                  /\ raised_at' = pc
                  /\ pc' = "raised"
                  /\ UNCHANGED main_watch_remnants
    /\ UNCHANGED <<market, entry, camp, listing, feed, last_id, page, product_list,
                   main_offer_ids, main_stocks, main_prices, chunks, ci, printed,
                   exit_status, coroutines>>
    /\ UNCHANGED pvars

\* create_stocks and list(divide(stocks, n)) of a main run
MainCreateStocks(r, n) ==
    /\ pc = "create_stocks"
    /\ main_offer_ids' = r.offer_ids
    /\ IF r.raised = NoExc
       THEN /\ main_stocks' = r.ret
            /\ chunks' = divide(r.ret, n)
            /\ ci' = 1
            /\ pc' = "update_stocks"
            /\ UNCHANGED <<exc, raised_at>>
       ELSE /\ exc' = r.raised
            /\ raised_at' = pc
            /\ pc' = "raised"
            /\ UNCHANGED <<main_stocks, chunks, ci>>
    /\ UNCHANGED <<market, entry, camp, listing, feed, last_id, page, product_list,
                   main_watch_remnants, main_prices, net, printed, exit_status,
                   coroutines>>
    /\ UNCHANGED pvars

seller_main_create_stocks ==
    /\ market = "ozon"
    /\ MainCreateStocks(seller_create_stocks(main_watch_remnants, main_offer_ids),
                        SellerStockBatch)

market_main_create_stocks ==
    /\ market = "yandex"
    /\ MainCreateStocks(market_create_stocks(main_watch_remnants, main_offer_ids,
                            IF camp = "fbs" THEN WarehouseFbs ELSE WarehouseDbs, UtcNow),
                        MarketStockBatch)

\* one iteration of a for loop over chunks: one update call
UpdateCall(at, endpoint) ==
    /\ pc = at
    /\ ci <= Len(chunks)
    /\ Len(net) < MaxCalls
    /\ \E outcome \in Outcomes :
          /\ net' = Append(net, Call(endpoint, camp, EmptyCursor, EmptyCursor,
                                     chunks[ci], outcome))
          /\ IF outcome = "ok"
             THEN /\ ci' = ci + 1
                  /\ UNCHANGED <<pc, exc, raised_at>>
             ELSE /\ exc' = outcome
                  /\ raised_at' = pc
                  /\ pc' = loop_on_raise(at, ci).pc
                  /\ ci' = loop_on_raise(at, ci).ci
    /\ UNCHANGED <<market, entry, camp, listing, feed, last_id, page, product_list,
                   main_offer_ids, main_watch_remnants, main_stocks, main_prices,
                   chunks, printed, exit_status, coroutines>>
    /\ UNCHANGED pvars

seller_main_update_stocks == market = "ozon" /\ UpdateCall("update_stocks", "stocks")

market_main_update_stocks == market = "yandex" /\ UpdateCall("update_stocks", "stocks")

seller_main_create_prices ==
    /\ market = "ozon"
    /\ pc = "update_stocks"
    /\ ci > Len(chunks)
    /\ LET r == seller_create_prices(main_watch_remnants, main_offer_ids)
       IN  /\ main_prices' = r.ret
           /\ chunks' = divide(r.ret, SellerPriceBatch)
    /\ ci' = 1
    /\ pc' = "update_price"
    /\ UNCHANGED <<market, entry, camp, listing, feed, last_id, page, product_list,
                   main_offer_ids, main_watch_remnants, main_stocks, net, exc,
                   raised_at, printed, exit_status, coroutines>>
    /\ UNCHANGED pvars

seller_main_update_price == market = "ozon" /\ UpdateCall("update_price", "prices")

seller_main_return ==
    /\ market = "ozon"
    /\ pc = "update_price"
    /\ ci > Len(chunks)
    /\ pc' = "done"
    /\ exit_status' = 0
    /\ UNCHANGED <<market, entry, camp, listing, feed, last_id, page, product_list,
                   main_offer_ids, main_watch_remnants, main_stocks, main_prices,
                   chunks, ci, net, exc, raised_at, printed, coroutines>>
    /\ UNCHANGED pvars

\* market.py lines 448 and 457: upload_prices is declared async and called
\* without await, so the call builds a coroutine object and runs none of the
\* function's body; after the second call main returns.
market_main_upload_prices ==
    /\ market = "yandex"
    /\ pc = "update_stocks"
    /\ ci > Len(chunks)
    /\ coroutines' = Append(coroutines, [fn |-> "upload_prices", campaign |-> camp])
    /\ IF camp = "fbs"
       THEN /\ camp' = "dbs"
            /\ pc' = "get_offer_ids"
            /\ page' = EmptyCursor
            /\ product_list' = <<>>
            /\ UNCHANGED exit_status
       ELSE /\ pc' = "done"
            /\ exit_status' = 0
            /\ UNCHANGED <<camp, page, product_list>>
    /\ UNCHANGED <<market, entry, listing, feed, last_id, main_offer_ids,
                   main_watch_remnants, main_stocks, main_prices, chunks, ci, net,
                   exc, raised_at, printed>>
    /\ UNCHANGED pvars

Handled ==
    /\ pc = "raised"
    /\ printed' = Append(printed, Diagnostic(exc))
    /\ pc' = "done"
    /\ exit_status' = 0
    /\ UNCHANGED <<market, entry, camp, listing, feed, last_id, page, product_list,
                   main_offer_ids, main_watch_remnants, main_stocks, main_prices,
                   chunks, ci, net, exc, raised_at, coroutines>>
    /\ UNCHANGED pvars

seller_main_except == market = "ozon" /\ Handled

market_main_except == market = "yandex" /\ ~market_before_try(raised_at) /\ Handled

\* an exception outside the try block ends the process with a traceback
market_main_uncaught ==
    /\ market = "yandex"
    /\ pc = "raised"
    /\ market_before_try(raised_at)
    /\ printed' = Append(printed, "Traceback")
    /\ pc' = "crashed"
    /\ exit_status' = 1
    /\ UNCHANGED <<market, entry, camp, listing, feed, last_id, page, product_list,
                   main_offer_ids, main_watch_remnants, main_stocks, main_prices,
                   chunks, ci, net, exc, raised_at, coroutines>>
    /\ UNCHANGED pvars

MainNext ==
    \/ seller_get_offer_ids_step
    \/ market_get_offer_ids_step
    \/ get_product_list_raises
    \/ download_stock
    \/ seller_main_create_stocks
    \/ market_main_create_stocks
    \/ seller_main_update_stocks
    \/ market_main_update_stocks
    \/ seller_main_create_prices
    \/ seller_main_update_price
    \/ seller_main_return
    \/ market_main_upload_prices
    \/ seller_main_except
    \/ market_main_except
    \/ market_main_uncaught

MainSpec == MainInit /\ [][MainNext]_vars

(***************************************************************************)
(* Properties of the main runs.                                            *)
(***************************************************************************)
CallsTo(endpoint, c) ==
    SelectSeq(net, LAMBDA call : call.endpoint = endpoint /\ call.campaign = c)

Payloads(calls) == [i \in 1..Len(calls) |-> calls[i].payload]

IsPrefix(a, b) == Len(a) <= Len(b) /\ a = SubSeq(b, 1, Len(a))

CompletedWithoutFailure == pc = "done" /\ exc = NoExc

\* the supplier records whose code is among the ids
MatchedCodes(remnants, ids) ==
    LET matched == SelectSeq(remnants, LAMBDA watch : watch.code \in Range(ids))
    IN  [k \in 1..Len(matched) |-> matched[k].code]

\* C1: in a completed Ozon run the price entries submitted are, in order, one
\* for every supplier record whose code is among the offer ids the listing
\* returned.
C1_OzonPricesForFetchedIds ==
    (market = "ozon" /\ CompletedWithoutFailure) =>
        LET sent == Flatten(Payloads(CallsTo("prices", "ozon")))
        IN  [k \in 1..Len(sent) |-> sent[k].offer_id] =
                MatchedCodes(main_watch_remnants, Flatten(listing["ozon"]))

\* C2: in a completed Yandex run, for each of the two campaigns the price list
\* reconciled against the campaign's offer ids has been submitted to the
\* price-update endpoint.
C2_YandexPricesUploaded ==
    (market = "yandex" /\ CompletedWithoutFailure) =>
        \A c \in {"fbs", "dbs"} :
            LET sent == Flatten(Payloads(CallsTo("prices", c)))
            IN  [k \in 1..Len(sent) |-> sent[k].id] =
                    MatchedCodes(main_watch_remnants, Flatten(listing[c]))

\* the chunks of a campaign's stock stream, from the feed and the listing
ExpectedStockChunks(c) ==
    LET r == IF c = "ozon"
             THEN seller_create_stocks(main_watch_remnants, Flatten(listing[c]))
             ELSE market_create_stocks(main_watch_remnants, Flatten(listing[c]),
                      IF c = "fbs" THEN WarehouseFbs ELSE WarehouseDbs, UtcNow)
    IN  IF r.raised # NoExc THEN <<>>
        ELSE divide(r.ret, IF c = "ozon" THEN SellerStockBatch ELSE MarketStockBatch)

C5_State ==
    /\ \A c \in Campaigns :
          IsPrefix(Payloads(CallsTo("stocks", c)), ExpectedStockChunks(c))
    /\ IsPrefix(Payloads(CallsTo("prices", "ozon")), divide(main_prices, SellerPriceBatch))
    /\ \A i \in 1..(Len(net) - 1) : net[i].status = "ok"
    /\ (Len(net) > 0 /\ net[Len(net)].status # "ok") =>
          /\ exc = net[Len(net)].status
          /\ pc \in {"raised", "done", "crashed"}

\* C5: the update calls of a stream carry a prefix of its chunk sequence, one
\* call per chunk in order; a failed call is the last call of the run, its
\* exception reaches main, and the log of calls made is never taken back.
C5_FailureStopsUpload == [](C5_State) /\ [][IsPrefix(net, net')]_vars

C5_Witness ==
    /\ market = "ozon"
    /\ pc = "done"
    /\ Len(ExpectedStockChunks("ozon")) = 3
    /\ Len(CallsTo("stocks", "ozon")) = 2
    /\ net[Len(net)].endpoint = "stocks"
    /\ net[Len(net)].status = "HTTPError"
    /\ net[Len(net) - 1].endpoint = "stocks"
    /\ net[Len(net) - 1].status = "ok"

Diagnostics == {"timeout message", "connection error message", "ERROR_2"}

\* C6: an exception raised at any step of either main run is caught by main:
\* the run prints one diagnostic and ends with the normal exit status.
C6_EveryFailureCaught ==
    exc # NoExc =>
        /\ pc \in {"raised", "done"}
        /\ pc = "done" =>
              /\ exit_status = 0
              /\ Len(printed) = 1
              /\ printed[1] \in Diagnostics

StockStreams == IF market = "ozon" THEN {"ozon"} ELSE {"fbs", "dbs"}

\* the stock list create_stocks builds for a campaign from the feed and the
\* ids its listing serves
ReconciledStocks(c) ==
    IF c = "ozon"
    THEN seller_create_stocks(main_watch_remnants, Flatten(listing[c])).ret
    ELSE market_create_stocks(main_watch_remnants, Flatten(listing[c]),
             IF c = "fbs" THEN WarehouseFbs ELSE WarehouseDbs, UtcNow).ret

\* the batch limits of the stock-update endpoints
StockBatchLimit(c) == IF c = "ozon" THEN 100 ELSE 2000

\* C14: in a main run without failure the batches sent to the stock-update
\* endpoint of each stream are, in order, a partition of the stream's
\* reconciled stock list into batches of 1 to the limit (100 for Ozon, 2000
\* for Yandex) elements, and an empty list makes no update call.
C14_StockBatchesPartition ==
    CompletedWithoutFailure =>
        /\ \A c \in StockStreams :
              LET batches == Payloads(CallsTo("stocks", c))
              IN  /\ Flatten(batches) = ReconciledStocks(c)
                  /\ \A k \in 1..Len(batches) :
                        /\ Len(batches[k]) >= 1
                        /\ Len(batches[k]) <= StockBatchLimit(c)
                  /\ ReconciledStocks(c) = <<>> => batches = <<>>
        /\ main_stocks = ReconciledStocks(camp)

C14_Witness ==
    /\ market = "ozon"
    /\ CompletedWithoutFailure
    /\ Len(main_stocks) = 201
    /\ Len(CallsTo("stocks", "ozon")) = 3
    /\ Len(CallsTo("stocks", "ozon")[1].payload) = 100
    /\ Len(CallsTo("stocks", "ozon")[3].payload) = 1

====
